---- MODULE Spec2Model ----
(***************************************************************************)
(* Model of GraphVisualizationEngine (src/unnamed/part_004): the graph     *)
(* store (nodes, edges, metadata), its mutation API, the version history   *)
(* and the import merge strategies.                                        *)
(*                                                                         *)
(* Modelling conventions                                                   *)
(*  - a GraphNode is a record [id, label]; a GraphEdge is a record         *)
(*    [id, source, target]; the other fields of the TypeScript types play  *)
(*    no role in the operations modelled here.                             *)
(*  - a version string "x.y.z" is the sequence <<x, y, z>> of its parts.   *)
(*  - Date.now() is the variable now, advanced by Tick.                    *)
(*  - the rendering backend holds no state of the store: the mutators'     *)
(*    updateVisualization() is left out, and applyFilters draws whether    *)
(*    the filtered rendering throws.                                       *)
(*  - websocket is this.websocket: its readyState ("NONE" when             *)
(*    config.realtime is false and no socket exists) and the messages      *)
(*    sent on it that the relay has not delivered yet.  inbound holds the  *)
(*    messages delivered to it that onmessage has not handled; peer is     *)
(*    the engine at the other end of the relay, which holds a message      *)
(*    until that engine's socket is open.  Only SpecRealtime has sockets.  *)
(*  - arguments have their declared TypeScript types; the text handed to   *)
(*    import() fails to parse, parses to a GraphData, or parses to an      *)
(*    object without nodes or without edges that is imported by 'append'.  *)
(*  - calls, mutations, allRecords and lastCall are history variables:     *)
(*    the number of API calls made, the number of them that changed the    *)
(*    graph, every version record ever created, and the last call with     *)
(*    the state it started from.  No operation of the engine reads         *)
(*    them; the specifications bound their runs by calls, SpecGraph and    *)
(*    SpecFilter order their runs by lastCall.op, and SpecRefresh reads    *)
(*    the position in the component's effect from calls.                   *)
(***************************************************************************)
EXTENDS Integers, Sequences, FiniteSets, TLC

VARIABLES nodes, edges, metaVersion, currentVersion, versionHistory,
          analytics, now, mutations, calls, allRecords, lastCall,
          websocket, inbound, peer

vars == <<nodes, edges, metaVersion, currentVersion, versionHistory,
          analytics, now, mutations, calls, allRecords, lastCall,
          websocket, inbound, peer>>

store == <<nodes, edges, currentVersion, versionHistory>>

(* ---------------------------- bounds ---------------------------------- *)

MaxCalls == 3
MaxVersionCalls == 4
MaxClock == 1
MaxHistoryCalls == 52
MaxVaried == 2
MaxAliasCalls == 3
MaxQueryCalls == 3
MaxGraphEdges == 3
MaxFilters == 2
MaxRealtimeCalls == 4
MaxRefreshes == 2

(* ------------------------- program constants -------------------------- *)

HistoryLimit == 50

InitialVersion == <<1, 0, 0>>

\* this.websocket of an engine whose config.realtime is false
NoSocket == [readyState |-> "NONE", sent |-> <<>>]

\* no second engine
NoPeer == [nodes |-> <<>>, edges |-> <<>>, records |-> 0,
           readyState |-> "NONE"]

(* ------------------------------ inputs -------------------------------- *)

\* the arrays handed to addNodes: the empty one, single nodes, a batch
\* that repeats an id, and batches of two different nodes
NodeBatches ==
    { <<>>,
      <<[id |-> "a", label |-> "L1"]>>,
      <<[id |-> "a", label |-> "L2"]>>,
      <<[id |-> "b", label |-> "L1"]>>,
      <<[id |-> "", label |-> "L1"]>>,
      <<[id |-> "a", label |-> "L1"], [id |-> "a", label |-> "L2"]>>,
      <<[id |-> "a", label |-> "L1"], [id |-> "b", label |-> "L1"]>>,
      <<[id |-> "b", label |-> "L1"], [id |-> "", label |-> "L1"]>> }

\* the arrays handed to addEdges
EdgeBatches ==
    { <<>>,
      <<[id |-> "e1", source |-> "a", target |-> "b"]>>,
      <<[id |-> "e2", source |-> "b", target |-> "a"]>>,
      <<[id |-> "", source |-> "a", target |-> "a"]>>,
      <<[id |-> "e1", source |-> "a", target |-> "b"],
        [id |-> "e2", source |-> "a", target |-> "a"]>> }

IdLists == { <<>>, <<"a">>, <<"b">>, <<"a", "b">> }

Updates == { [label |-> "L2"], [id |-> "b"] }

ParsedDatas ==
    { [nodes |-> <<[id |-> "a", label |-> "L2"], [id |-> "a", label |-> "L1"]>>,
       edges |-> <<[id |-> "e1", source |-> "a", target |-> "b"]>>,
       version |-> <<1, 0, 0>>],
      [nodes |-> <<[id |-> "b", label |-> "L2"]>>,
       edges |-> <<>>,
       version |-> <<2, 0, 0>>] }

\* a text is modelled by what JSON.parse makes of it: a value, or a throw
JsonText(d) == [valid |-> TRUE, value |-> d]

Garbage == [valid |-> FALSE, value |-> <<>>]

\* JSON.parse accepts any JSON value: these objects lack a field of
\* GraphData (the first has no edges, the second no nodes)
PartialDatas ==
    { [nodes |-> <<[id |-> "b", label |-> "L2"]>>, version |-> <<2, 0, 0>>],
      [edges |-> <<>>, version |-> <<2, 0, 0>>] }

ImportInputs ==
    { [format |-> "json", data |-> JsonText(d), mergeStrategy |-> m] :
         d \in ParsedDatas, m \in {"replace", "merge", "append"} }
    \cup { [format |-> "json", data |-> JsonText(d), mergeStrategy |-> "append"] :
            d \in PartialDatas }
    \cup { [format |-> "json", data |-> Garbage, mergeStrategy |-> "replace"],
           [format |-> "csv", data |-> Garbage, mergeStrategy |-> "replace"],
           [format |-> "graphml", data |-> Garbage, mergeStrategy |-> "replace"],
           [format |-> "graphml", data |-> Garbage, mergeStrategy |-> "append"],
           [format |-> "dot", data |-> Garbage, mergeStrategy |-> "merge"] }

\* the queries handed to query(): every supported type, 'neighbors' with
\* and without a depth, and a type the switch does not know
Queries ==
    { [type |-> "path", parameters |-> [source |-> "a", target |-> "b"]],
      [type |-> "path", parameters |-> [source |-> "b", target |-> "a"]],
      [type |-> "neighbors", parameters |-> [nodeId |-> "a", depth |-> 0]],
      [type |-> "neighbors", parameters |-> [nodeId |-> "b", depth |-> 2]],
      [type |-> "subgraph", parameters |-> [nodeIds |-> <<"b">>]],
      [type |-> "pattern", parameters |-> [pattern |-> "p"]],
      [type |-> "analytics", parameters |-> <<>>],
      [type |-> "cypher", parameters |-> <<>>] }

\* graphs built for the analytics: the first n of these ids as nodes, and
\* up to MaxGraphEdges directed edges between them in every order, self
\* loops and parallel edges included
GraphIds == <<"A", "B", "C", "D">>

EdgeNames == <<"e1", "e2", "e3", "e4", "e5", "e6">>

GraphNodeBatches ==
    { [i \in 1..n |-> [id |-> GraphIds[i], label |-> "L1"]] :
         n \in 0..Len(GraphIds) }

GraphEdgeBatches(ids) ==
    { [i \in DOMAIN ends |->
          [id |-> EdgeNames[i], source |-> ends[i][1], target |-> ends[i][2]]] :
         ends \in UNION { [1..k -> ids \X ids] : k \in 0..MaxGraphEdges } }

GraphQueries ==
    { [type |-> "path", parameters |-> [source |-> "A", target |-> "C"]] }

\* graphs convertProjectDataToGraph yields: a PRD with a deliverable; the
\* same with the PRD retitled; a deliverable with two tasks; one whose
\* tasks depend on each other; one whose task depends on a task x that
\* does not exist; and the graph of no project data.  An edge's id is
\* `${source}-${target}`.
ConvertedGraphs ==
    { [nodes |-> <<[id |-> "p", label |-> "L1"], [id |-> "d", label |-> "L1"]>>,
       edges |-> <<[id |-> "p-d", source |-> "p", target |-> "d"]>>],
      [nodes |-> <<[id |-> "p", label |-> "L2"], [id |-> "d", label |-> "L1"]>>,
       edges |-> <<[id |-> "p-d", source |-> "p", target |-> "d"]>>],
      [nodes |-> <<[id |-> "d", label |-> "L1"], [id |-> "t1", label |-> "L1"],
                   [id |-> "t2", label |-> "L1"]>>,
       edges |-> <<[id |-> "d-t1", source |-> "d", target |-> "t1"],
                   [id |-> "d-t2", source |-> "d", target |-> "t2"]>>],
      [nodes |-> <<[id |-> "d", label |-> "L1"], [id |-> "t1", label |-> "L2"],
                   [id |-> "t2", label |-> "L1"]>>,
       edges |-> <<[id |-> "d-t1", source |-> "d", target |-> "t1"],
                   [id |-> "t2-t1", source |-> "t2", target |-> "t1"],
                   [id |-> "d-t2", source |-> "d", target |-> "t2"],
                   [id |-> "t1-t2", source |-> "t1", target |-> "t2"]>>],
      [nodes |-> <<[id |-> "d", label |-> "L1"], [id |-> "t1", label |-> "L1"]>>,
       edges |-> <<[id |-> "d-t1", source |-> "d", target |-> "t1"],
                   [id |-> "x-t1", source |-> "x", target |-> "t1"]>>],
      [nodes |-> <<>>, edges |-> <<>>] }

\* the plugins handed to installPlugin, by what their onDataUpdate hook
\* returns: no hook, the data it was given, or a copy without the edges
Plugins ==
    { [id |-> "p1", onDataUpdate |-> "none"],
      [id |-> "p2", onDataUpdate |-> "same"],
      [id |-> "p3", onDataUpdate |-> "without edges"] }

VersionIds == 0..MaxClock

VersionNodeBatches ==
    { <<[id |-> "a", label |-> "L1"]>>, <<[id |-> "b", label |-> "L1"]>> }

VersionImportInputs ==
    { [format |-> "json", mergeStrategy |-> "replace",
       data |-> JsonText([nodes |-> <<[id |-> "b", label |-> "L2"]>>,
                          edges |-> <<>>, version |-> <<2, 0, 0>>])],
      [format |-> "json", data |-> Garbage, mergeStrategy |-> "replace"] }

(* --------------------------- array helpers ---------------------------- *)

Ids(s) == { s[i].id : i \in DOMAIN s }

Range(s) == { s[i] : i \in DOMAIN s }

MapIds(s) == [i \in DOMAIN s |-> s[i].id]

\* Array.prototype.findIndex(x => x.id === id), 1-based; 0 when absent
FindIndex(s, id) ==
    IF \E i \in DOMAIN s : s[i].id = id
    THEN CHOOSE i \in DOMAIN s :
            /\ s[i].id = id
            /\ \A j \in DOMAIN s : s[j].id = id => i <= j
    ELSE 0

Spread_BaseWins(base, updates) ==
    [f \in DOMAIN base \cup DOMAIN updates |->
        IF f \in DOMAIN base THEN base[f] ELSE updates[f]]

\* { ...base, ...updates }: the fields of updates override those of base
Spread(base, updates) ==
    [f \in DOMAIN base \cup DOMAIN updates |->
        IF f \in DOMAIN updates THEN updates[f] ELSE base[f]]

RemoveIncident_SourceOnly(es, nodeIds) ==
    SelectSeq(es, LAMBDA e : e.source \notin Range(nodeIds))

\* edges.filter(e => !nodeIds.includes(e.source) && !nodeIds.includes(e.target))
RemoveIncident(es, nodeIds) ==
    SelectSeq(es, LAMBDA e : /\ e.source \notin Range(nodeIds)
                             /\ e.target \notin Range(nodeIds))

(* ------------------------- Map<string, number> ------------------------ *)
(* A JavaScript Map is the sequence of its [key, value] entries in         *)
(* insertion order.                                                        *)

MapKeys(m) == { m[i].key : i \in DOMAIN m }

MapHas(m, k) == k \in MapKeys(m)

MapIndex(m, k) == CHOOSE i \in DOMAIN m : m[i].key = k

\* m.get(k) || 0
MapGetOr0(m, k) == IF MapHas(m, k) THEN m[MapIndex(m, k)].value ELSE 0

\* m.set(k, v): an existing key keeps its position
MapSet(m, k, v) ==
    IF MapHas(m, k)
    THEN [m EXCEPT ![MapIndex(m, k)] = [key |-> k, value |-> v]]
    ELSE Append(m, [key |-> k, value |-> v])

RECURSIVE SumValues(_)
SumValues(m) == IF m = <<>> THEN 0 ELSE Head(m).value + SumValues(Tail(m))

(* ----------------------------- analytics ------------------------------ *)

RECURSIVE ZeroEntries(_, _)
\* nodes.forEach(node => map.set(node.id, 0))
ZeroEntries(m, ns) ==
    IF ns = <<>> THEN m ELSE ZeroEntries(MapSet(m, Head(ns).id, 0), Tail(ns))

RECURSIVE CountDegrees_SourceOnly(_, _)
\* a degree table that counts an edge at its source only
CountDegrees_SourceOnly(m, es) ==
    IF es = <<>> THEN m
    ELSE LET e == Head(es) IN
         CountDegrees_SourceOnly(
            MapSet(m, e.source, MapGetOr0(m, e.source) + 1), Tail(es))

RECURSIVE CountDegrees(_, _)
\* edges.forEach: one more for edge.source, one more for edge.target
CountDegrees(m, es) ==
    IF es = <<>> THEN m
    ELSE LET e == Head(es)
             m1 == MapSet(m, e.source, MapGetOr0(m, e.source) + 1)
             m2 == MapSet(m1, e.target, MapGetOr0(m1, e.target) + 1) IN
         CountDegrees(m2, Tail(es))

\* the degree table of calculateAnalytics
degrees(ns, es) == CountDegrees(ZeroEntries(<<>>, ns), es)

RECURSIVE dfsCluster(_, _, _)
RECURSIVE dfsEdges(_, _, _, _)
\* the edges.forEach loop of dfsCluster from edge i on; acc is
\* [cluster, visited], the set visited being shared by all recursive calls
dfsEdges(nodeId, i, acc, es) ==
    IF i > Len(es) THEN acc
    ELSE LET e == es[i] IN
         IF e.source = nodeId /\ e.target \notin acc.visited
         THEN LET sub == dfsCluster(e.target, acc.visited, es) IN
              dfsEdges(nodeId, i + 1,
                       [cluster |-> acc.cluster \o sub.cluster,
                        visited |-> sub.visited], es)
         ELSE IF e.target = nodeId /\ e.source \notin acc.visited
         THEN LET sub == dfsCluster(e.source, acc.visited, es) IN
              dfsEdges(nodeId, i + 1,
                       [cluster |-> acc.cluster \o sub.cluster,
                        visited |-> sub.visited], es)
         ELSE dfsEdges(nodeId, i + 1, acc, es)

dfsCluster(nodeId, visited, es) ==
    IF nodeId \in visited THEN [cluster |-> <<>>, visited |-> visited]
    ELSE dfsEdges(nodeId, 1,
                  [cluster |-> <<nodeId>>, visited |-> visited \cup {nodeId}],
                  es)

RECURSIVE ClusterLoop(_, _, _, _)
\* the nodes.forEach loop of findClusters
ClusterLoop(ns, es, visited, clusters) ==
    IF ns = <<>> THEN clusters
    ELSE IF Head(ns).id \in visited
    THEN ClusterLoop(Tail(ns), es, visited, clusters)
    ELSE LET sub == dfsCluster(Head(ns).id, visited, es) IN
         ClusterLoop(Tail(ns), es, sub.visited,
                     IF Len(sub.cluster) > 0
                     THEN Append(clusters, sub.cluster) ELSE clusters)

findClusters(ns, es) == ClusterLoop(ns, es, {}, <<>>)

\* an in-degree table that counts no edge
CountInDegrees_None(m, es) == m

RECURSIVE CountInDegrees(_, _)
\* inDegree.set(edge.target, (inDegree.get(edge.target) || 0) + 1)
CountInDegrees(m, es) ==
    IF es = <<>> THEN m
    ELSE CountInDegrees(MapSet(m, Head(es).target,
                               MapGetOr0(m, Head(es).target) + 1), Tail(es))

\* adjList.get(id): the targets of the edges leaving id, in edge order;
\* only node ids have an entry (adjList.get(edge.source)?.push)
adjList(ns, es, id) ==
    IF id \in Ids(ns)
    THEN LET out == SelectSeq(es, LAMBDA e : e.source = id) IN
         [i \in DOMAIN out |-> out[i].target]
    ELSE <<>>

RECURSIVE Relax_OneLeft(_, _, _)
\* a relaxation that queues a neighbor while one of its in-edges is left
Relax_OneLeft(neighbors, inDegree, queue) ==
    IF neighbors = <<>> THEN [inDegree |-> inDegree, queue |-> queue]
    ELSE LET n == Head(neighbors)
             d == MapGetOr0(inDegree, n) - 1 IN
         Relax_OneLeft(Tail(neighbors), MapSet(inDegree, n, d),
                       IF d = 1 THEN Append(queue, n) ELSE queue)

RECURSIVE Relax(_, _, _)
\* adjList.get(current)?.forEach(neighbor => ...): acc is [inDegree, queue]
Relax(neighbors, inDegree, queue) ==
    IF neighbors = <<>> THEN [inDegree |-> inDegree, queue |-> queue]
    ELSE LET n == Head(neighbors)
             d == MapGetOr0(inDegree, n) - 1 IN
         Relax(Tail(neighbors), MapSet(inDegree, n, d),
               IF d = 0 THEN Append(queue, n) ELSE queue)

RECURSIVE Kahn(_, _, _, _, _)
\* the while (queue.length > 0) loop of findCriticalPath
Kahn(ns, es, inDegree, queue, result) ==
    IF queue = <<>> THEN result
    ELSE LET current == Head(queue)
             r == Relax(adjList(ns, es, current), inDegree, Tail(queue)) IN
         Kahn(ns, es, r.inDegree, r.queue, Append(result, current))

findCriticalPath(ns, es) ==
    LET inDegree == CountInDegrees(ZeroEntries(<<>>, ns), es)
        zero == SelectSeq(inDegree, LAMBDA en : en.value = 0)
        queue == [i \in DOMAIN zero |-> zero[i].key] IN
    Kahn(ns, es, inDegree, queue, <<>>)

\* Math.max(...values) and Math.min(...values); no values give -+Infinity
MaxValue(m) ==
    IF m = <<>> THEN "-Infinity"
    ELSE CHOOSE v \in { m[i].value : i \in DOMAIN m } :
            \A i \in DOMAIN m : m[i].value <= v

MinValue(m) ==
    IF m = <<>> THEN "Infinity"
    ELSE CHOOSE v \in { m[i].value : i \in DOMAIN m } :
            \A i \in DOMAIN m : m[i].value >= v

\* a number kept as the exact ratio num / den
Ratio(num, den) == [num |-> num, den |-> den]

calculateAnalytics(ns, es) ==
    LET nodeCount == Len(ns)
        edgeCount == Len(es)
        degs == degrees(ns, es)
        averageDegree == IF nodeCount > 0
                         THEN Ratio(SumValues(degs), nodeCount)
                         ELSE Ratio(0, 1)
        over == SelectSeq(degs, LAMBDA en :
                   en.value * averageDegree.den > averageDegree.num * 2) IN
    [ nodeCount     |-> nodeCount,
      edgeCount     |-> edgeCount,
      density       |-> IF nodeCount > 1
                        THEN Ratio(2 * edgeCount, nodeCount * (nodeCount - 1))
                        ELSE Ratio(0, 1),
      averageDegree |-> averageDegree,
      clusters      |-> Len(findClusters(ns, es)),
      criticalPath  |-> findCriticalPath(ns, es),
      bottlenecks   |-> [i \in DOMAIN over |-> over[i].key],
      metrics       |->
         [ maxDegree     |-> MaxValue(degs),
           minDegree     |-> MinValue(degs),
           isolatedNodes |-> Len(SelectSeq(degs, LAMBDA en : en.value = 0)) ] ]

(* ------------------------------ queries ------------------------------- *)

RECURSIVE PathLoop_Stack(_, _, _, _)
\* a search that takes the newest queue entry first (depth first)
PathLoop_Stack(queue, visited, targetId, es) ==
    IF queue = <<>> THEN <<>>
    ELSE LET nodeId == Head(queue).nodeId
             path == Head(queue).path IN
         IF nodeId = targetId THEN path
         ELSE IF nodeId \in visited
         THEN PathLoop_Stack(Tail(queue), visited, targetId, es)
         ELSE LET seen == visited \cup {nodeId}
                  out == SelectSeq(es, LAMBDA e :
                            e.source = nodeId /\ e.target \notin seen) IN
              PathLoop_Stack([i \in DOMAIN out |->
                                [nodeId |-> out[i].target,
                                 path |-> Append(path, out[i].target)]]
                               \o Tail(queue),
                             seen, targetId, es)

RECURSIVE PathLoop(_, _, _, _)
\* the while loop of findPath: queue holds [nodeId, path] entries
PathLoop(queue, visited, targetId, es) ==
    IF queue = <<>> THEN <<>>
    ELSE LET nodeId == Head(queue).nodeId
             path == Head(queue).path IN
         IF nodeId = targetId THEN path
         ELSE IF nodeId \in visited
         THEN PathLoop(Tail(queue), visited, targetId, es)
         ELSE LET seen == visited \cup {nodeId}
                  out == SelectSeq(es, LAMBDA e :
                            e.source = nodeId /\ e.target \notin seen) IN
              PathLoop(Tail(queue) \o
                         [i \in DOMAIN out |->
                            [nodeId |-> out[i].target,
                             path |-> Append(path, out[i].target)]],
                       seen, targetId, es)

findPath(sourceId, targetId, es) ==
    PathLoop(<<[nodeId |-> sourceId, path |-> <<sourceId>>]>>, {}, targetId, es)

\* the id at the other end of edge e seen from id, "null" when e is not
\* incident to id
OtherEnd(e, id) ==
    IF e.source = id THEN e.target
    ELSE IF e.target = id THEN e.source ELSE "null"

RECURSIVE AddAll(_, _)
\* Set.add of every element of ids, keeping insertion order
AddAll(set, ids) ==
    IF ids = <<>> THEN set
    ELSE AddAll(IF Head(ids) \in Range(set) THEN set
                ELSE Append(set, Head(ids)), Tail(ids))

RECURSIVE NeighborLoop(_, _, _, _, _)
\* the while loop of getNeighbors: queue holds [nodeId, currentDepth]
NeighborLoop(queue, visited, neighbors, depth, es) ==
    IF queue = <<>> THEN neighbors
    ELSE LET cur == Head(queue).nodeId
             currentDepth == Head(queue).currentDepth IN
         IF currentDepth >= depth \/ cur \in visited
         THEN NeighborLoop(Tail(queue), visited, neighbors, depth, es)
         ELSE LET seen == visited \cup {cur}
                  \* if (neighborId && !visited.has(neighborId)): the empty
                  \* string is falsy
                  hit == SelectSeq(es, LAMBDA e :
                            /\ OtherEnd(e, cur) \notin {"null", ""}
                            /\ OtherEnd(e, cur) \notin seen)
                  found == [i \in DOMAIN hit |-> OtherEnd(hit[i], cur)] IN
              NeighborLoop(
                 IF currentDepth + 1 < depth
                 THEN Tail(queue) \o
                        [i \in DOMAIN found |->
                           [nodeId |-> found[i],
                            currentDepth |-> currentDepth + 1]]
                 ELSE Tail(queue),
                 seen, AddAll(neighbors, found), depth, es)

getNeighbors(nodeId, depth, es) ==
    NeighborLoop(<<[nodeId |-> nodeId, currentDepth |-> 0]>>, {}, <<>>,
                 depth, es)

(* ------------------------- import strategies -------------------------- *)

\* mergeData: update-or-insert by id, one imported element after the other
RECURSIVE mergeData(_, _)
mergeData(current, imported) ==
    IF imported = <<>> THEN current
    ELSE LET newItem == Head(imported)
             existingIndex == FindIndex(current, newItem.id) IN
         mergeData(IF existingIndex # 0
                   THEN [current EXCEPT ![existingIndex] =
                            Spread(current[existingIndex], newItem)]
                   ELSE Append(current, newItem),
                   Tail(imported))

\* appendData: push(...imported)
appendData(current, imported) == current \o imported

\* private analytics: GraphAnalytics | null = null
NoAnalytics == [null |-> TRUE]

EmptyGraph == [nodes |-> <<>>, edges |-> <<>>, version |-> InitialVersion]

\* JSON.parse throws on text that is not JSON; an unknown format throws
ParseThrows(importData) ==
    \/ importData.format \notin {"json", "graphml", "dot"}
    \/ importData.format = "json" /\ ~importData.data.valid

\* parseGraphML and parseDOT are placeholders returning an empty graph
Parse(importData) ==
    IF importData.format = "json" THEN importData.data.value ELSE EmptyGraph

(* ------------------------- version history ---------------------------- *)

incrementVersion_NoBump(v) == <<v[1], v[2], v[3]>>

\* split('.'), parts[2]++, join('.')
incrementVersion(v) == <<v[1], v[2], v[3] + 1>>

NoChanges == [nodes |-> <<>>, edges |-> <<>>]

VersionRecord(message, added, modified, removed) ==
    [ id            |-> now,
      version       |-> incrementVersion(currentVersion),
      message       |-> message,
      changes       |-> [added |-> added, modified |-> modified,
                         removed |-> removed],
      parentVersion |-> currentVersion ]

KeepLast_First(h) ==
    IF Len(h) > HistoryLimit THEN SubSeq(h, 1, HistoryLimit) ELSE h

\* versionHistory.slice(-50) once the list is longer than 50
KeepLast(h) ==
    IF Len(h) > HistoryLimit
    THEN SubSeq(h, Len(h) - HistoryLimit + 1, Len(h))
    ELSE h

createVersionSnapshot(message, added, modified, removed) ==
    LET version == VersionRecord(message, added, modified, removed) IN
    /\ versionHistory' = KeepLast(Append(versionHistory, version))
    /\ currentVersion' = version.version
    /\ metaVersion' = version.version
    /\ allRecords' = Append(allRecords, version)

(* ------------------------------ filters ------------------------------ *)
(* The values a criterion compares are JavaScript values, kept with their  *)
(* type: a string is the sequence of its characters, so that includes()    *)
(* and toLowerCase() are computed on it.  An object is a record; a         *)
(* property path is the list of keys that path.split('.') yields.          *)

StrV(chars) == [t |-> "string", s |-> chars]

NumV(n) == [t |-> "number", n |-> n]

ArrV(elements) == [t |-> "array", a |-> elements]

Undefined == [t |-> "undefined"]

NaN == [nan |-> TRUE]

IsObject(x) == "t" \notin DOMAIN x

\* current?.[key]
Member(current, key) ==
    IF IsObject(current) /\ key \in DOMAIN current THEN current[key]
    ELSE Undefined

RECURSIVE getNestedProperty(_, _)
\* path.split('.').reduce((current, key) => current?.[key], obj)
getNestedProperty(obj, path) ==
    IF path = <<>> THEN obj
    ELSE getNestedProperty(Member(obj, Head(path)), Tail(path))

Digits == <<"0", "1", "2", "3", "4", "5", "6", "7", "8", "9">>

RECURSIVE DigitsOf(_)
\* the decimal digits of a natural number
DigitsOf(n) ==
    IF n < 10 THEN <<Digits[n + 1]>>
    ELSE Append(DigitsOf(n \div 10), Digits[(n % 10) + 1])

RECURSIVE Join(_)
\* String(value): 'undefined' for undefined, the digits of a number, the
\* elements of an array joined by commas
String(v) ==
    CASE v.t = "string" -> v.s
      [] v.t = "number" -> DigitsOf(v.n)
      [] v.t = "undefined" -> <<"u", "n", "d", "e", "f", "i", "n", "e", "d">>
      [] v.t = "array" -> Join(v.a)

Join(a) ==
    IF a = <<>> THEN <<>>
    ELSE IF Len(a) = 1 THEN String(a[1])
    ELSE String(a[1]) \o <<",">> \o Join(Tail(a))

\* toLowerCase() on the letters the inputs use
LowerChar(c) ==
    CASE c = "H" -> "h" [] c = "L" -> "l" [] c = "C" -> "c" [] OTHER -> c

toLowerCase(str) == [i \in DOMAIN str |-> LowerChar(str[i])]

\* hay.includes(needle)
includes(hay, needle) ==
    \E i \in 0..(Len(hay) - Len(needle)) :
       SubSeq(hay, i + 1, i + Len(needle)) = needle

RECURSIVE ParseDigits(_, _)
\* the number a string of decimal digits denotes, NaN on another character
ParseDigits(str, acc) ==
    IF str = <<>> THEN [nan |-> FALSE, n |-> acc]
    ELSE IF \E d \in DOMAIN Digits : Digits[d] = Head(str)
    THEN ParseDigits(Tail(str),
            10 * acc + (CHOOSE d \in DOMAIN Digits : Digits[d] = Head(str)) - 1)
    ELSE NaN

\* Number(value): NaN for undefined and for text that is no number, 0 for
\* the empty string; an array goes through its string
Number(v) ==
    CASE v.t = "number" -> [nan |-> FALSE, n |-> v.n]
      [] v.t = "undefined" -> NaN
      [] OTHER -> ParseDigits(String(v), 0)

\* a === b: arrays are equal only to themselves, and a criterion's array is
\* never the item's
StrictEquals(a, b) == a.t # "array" /\ a = b

\* criterion.value.includes(value)
ArrayIncludes(arr, v) == \E i \in DOMAIN arr.a : StrictEquals(arr.a[i], v)

\* one round of the criteria.every callback
matchesCriterion(item, criterion) ==
    LET value == getNestedProperty(item, criterion.property) IN
    CASE criterion.operator = "equals" -> StrictEquals(value, criterion.value)
      [] criterion.operator = "contains" ->
            includes(toLowerCase(String(value)),
                     toLowerCase(String(criterion.value)))
      [] criterion.operator = "greater" ->
            /\ ~Number(value).nan
            /\ ~Number(criterion.value).nan
            /\ Number(value).n > Number(criterion.value).n
      [] criterion.operator = "less" ->
            /\ ~Number(value).nan
            /\ ~Number(criterion.value).nan
            /\ Number(value).n < Number(criterion.value).n
      [] criterion.operator = "in" ->
            criterion.value.t = "array" /\ ArrayIncludes(criterion.value, value)
      [] criterion.operator = "not-in" ->
            criterion.value.t = "array" /\ ~ArrayIncludes(criterion.value, value)
      [] OTHER -> FALSE

\* criteria.some in place of criteria.every
matchesCriteria_Some(item, criteria) ==
    \E i \in DOMAIN criteria : matchesCriterion(item, criteria[i])

matchesCriteria(item, criteria) ==
    \A i \in DOMAIN criteria : matchesCriterion(item, criteria[i])

RECURSIVE FilterLoop(_, _, _)
\* filters.forEach of filterData
FilterLoop(filters, ns, es) ==
    IF filters = <<>> THEN [nodes |-> ns, edges |-> es]
    ELSE LET filter == Head(filters) IN
         IF ~filter.active THEN FilterLoop(Tail(filters), ns, es)
         ELSE FilterLoop(Tail(filters),
                 IF filter.type \in {"node", "both"}
                 THEN SelectSeq(ns, LAMBDA n :
                         matchesCriteria(n, filter.criteria))
                 ELSE ns,
                 IF filter.type \in {"edge", "both"}
                 THEN SelectSeq(es, LAMBDA e :
                         matchesCriteria(e, filter.criteria))
                 ELSE es)

\* filterData(data, filters): the nodes and edges of the filtered graph
filterData(ns, es, filters) ==
    LET r == FilterLoop(filters, ns, es)
        nodeIds == Ids(r.nodes) IN
    [nodes |-> r.nodes,
     edges |-> SelectSeq(r.edges, LAMBDA e :
                  e.source \in nodeIds /\ e.target \in nodeIds)]

\* the graph the filters are applied to: the two nodes of the AND example,
\* a node without priority, and edges between them
FilterNodes ==
    << [id |-> "x", label |-> "L1",
        status |-> StrV(<<"c", "o", "m", "p", "l", "e", "t", "e">>),
        priority |-> StrV(<<"h", "i", "g", "h">>)],
       [id |-> "y", label |-> "L1",
        status |-> StrV(<<"c", "o", "m", "p", "l", "e", "t", "e">>),
        priority |-> StrV(<<"l", "o", "w">>)],
       [id |-> "z", label |-> "L1",
        status |-> StrV(<<"b", "l", "o", "c", "k", "e", "d">>),
        metadata |-> [progress |-> NumV(5)]] >>

FilterEdges ==
    << [id |-> "e1", source |-> "x", target |-> "y", weight |-> NumV(2)],
       [id |-> "e2", source |-> "y", target |-> "z"],
       [id |-> "e3", source |-> "x", target |-> "z", weight |-> NumV(7)] >>

Criteria ==
    [ statusComplete |->
         [property |-> <<"status">>, operator |-> "equals",
          value |-> StrV(<<"c", "o", "m", "p", "l", "e", "t", "e">>)],
      priorityHigh |->
         [property |-> <<"priority">>, operator |-> "equals",
          value |-> StrV(<<"h", "i", "g", "h">>)],
      priorityContainsHI |->
         [property |-> <<"priority">>, operator |-> "contains",
          value |-> StrV(<<"H", "I">>)],
      priorityContainsFine |->
         [property |-> <<"priority">>, operator |-> "contains",
          value |-> StrV(<<"f", "i", "n", "e">>)],
      priorityNotInLow |->
         [property |-> <<"priority">>, operator |-> "not-in",
          value |-> ArrV(<<StrV(<<"l", "o", "w">>)>>)],
      priorityInHigh |->
         [property |-> <<"priority">>, operator |-> "in",
          value |-> ArrV(<<StrV(<<"h", "i", "g", "h">>), NumV(1)>>)],
      priorityIsUndefined |->
         [property |-> <<"priority">>, operator |-> "equals",
          value |-> Undefined],
      progressGreater3 |->
         [property |-> <<"metadata", "progress">>, operator |-> "greater",
          value |-> NumV(3)],
      weightLess5 |->
         [property |-> <<"weight">>, operator |-> "less",
          value |-> StrV(<<"5">>)],
      statusMatches |->
         [property |-> <<"status">>, operator |-> "matches",
          value |-> StrV(<<"c">>)] ]

Filters ==
    { [id |-> "f1", type |-> "node", active |-> TRUE,
       criteria |-> <<Criteria.statusComplete, Criteria.priorityHigh>>],
      [id |-> "f2", type |-> "node", active |-> FALSE,
       criteria |-> <<Criteria.statusComplete, Criteria.priorityHigh>>],
      [id |-> "f3", type |-> "node", active |-> TRUE,
       criteria |-> <<Criteria.priorityContainsHI>>],
      [id |-> "f4", type |-> "node", active |-> TRUE,
       criteria |-> <<Criteria.priorityContainsFine>>],
      [id |-> "f5", type |-> "node", active |-> TRUE,
       criteria |-> <<Criteria.priorityNotInLow>>],
      [id |-> "f6", type |-> "both", active |-> TRUE,
       criteria |-> <<Criteria.progressGreater3>>],
      [id |-> "f7", type |-> "edge", active |-> TRUE,
       criteria |-> <<Criteria.weightLess5>>],
      [id |-> "f8", type |-> "node", active |-> TRUE,
       criteria |-> <<Criteria.priorityIsUndefined>>],
      [id |-> "f9", type |-> "node", active |-> TRUE,
       criteria |-> <<Criteria.priorityInHigh>>],
      [id |-> "f10", type |-> "node", active |-> TRUE,
       criteria |-> <<Criteria.statusMatches>>],
      [id |-> "f11", type |-> "node", active |-> TRUE, criteria |-> <<>>] }

\* the filter lists handed to applyFilters
FilterLists == UNION { [1..k -> Filters] : k \in 0..MaxFilters }

(* ---------------------------- the calls ------------------------------- *)

Pre == [nodes |-> nodes, edges |-> edges, currentVersion |-> currentVersion,
        metaVersion |-> metaVersion, versionHistory |-> versionHistory]

\* one call of the public API by the caller's code: op(arg), which
\* returned or threw.  Nothing is taken from the websocket during it and
\* the engine at the other end of the relay does not move.
Called(op, arg, threw) ==
    /\ lastCall' = [op |-> op, arg |-> arg, threw |-> threw, pre |-> Pre,
                    prev |-> [op |-> lastCall.op, arg |-> lastCall.arg,
                              pre |-> lastCall.pre]]
    /\ calls' = calls + 1
    /\ UNCHANGED <<inbound, peer>>

\* what broadcastUpdate puts on a socket: JSON.stringify({type, payload});
\* nothing unless the socket exists and is OPEN.  this.websocket exists
\* only when config.realtime is set, so the callers' test of
\* config.realtime is the first half of this one.
Broadcast(readyState, type, payload) ==
    IF readyState = "OPEN"
    THEN <<JsonText([type |-> type, payload |-> payload])>>
    ELSE <<>>

broadcastUpdate(type, payload) ==
    websocket' = [websocket EXCEPT
                    !.sent = @ \o Broadcast(websocket.readyState, type,
                                            payload)]

\* the methods themselves, as a caller and handleRealtimeUpdate both run
\* them
thisAddNodes(batch) ==
    LET newNodes == SelectSeq(batch, LAMBDA n : n.id \notin Ids(nodes)) IN
    /\ nodes' = nodes \o newNodes
    /\ analytics' = calculateAnalytics(nodes', edges)
    /\ broadcastUpdate("nodes-added", newNodes)
    /\ createVersionSnapshot("Added nodes",
          [nodes |-> MapIds(newNodes), edges |-> <<>>], NoChanges, NoChanges)
    /\ mutations' = mutations + 1
    /\ UNCHANGED <<edges, now>>

thisAddEdges(batch) ==
    LET newEdges == SelectSeq(batch, LAMBDA e : e.id \notin Ids(edges)) IN
    /\ edges' = edges \o newEdges
    /\ analytics' = calculateAnalytics(nodes, edges')
    /\ broadcastUpdate("edges-added", newEdges)
    /\ createVersionSnapshot("Added edges",
          [nodes |-> <<>>, edges |-> MapIds(newEdges)], NoChanges, NoChanges)
    /\ mutations' = mutations + 1
    /\ UNCHANGED <<nodes, now>>

thisRemoveNodes(nodeIds) ==
    /\ nodes' = SelectSeq(nodes, LAMBDA n : n.id \notin Range(nodeIds))
    /\ edges' = RemoveIncident(edges, nodeIds)
    /\ analytics' = calculateAnalytics(nodes', edges')
    /\ broadcastUpdate("nodes-removed", nodeIds)
    /\ createVersionSnapshot("Removed nodes", NoChanges, NoChanges,
          [nodes |-> nodeIds, edges |-> <<>>])
    /\ mutations' = mutations + 1
    /\ UNCHANGED now

\* updateNode does not recompute the analytics
thisUpdateNode(nodeId, updates) ==
    LET nodeIndex == FindIndex(nodes, nodeId) IN
    /\ IF nodeIndex # 0
       THEN /\ nodes' = [nodes EXCEPT
                           ![nodeIndex] = Spread(nodes[nodeIndex], updates)]
            /\ broadcastUpdate("node-updated",
                               [id |-> nodeId, updates |-> updates])
            /\ createVersionSnapshot("Updated node", NoChanges,
                  [nodes |-> <<nodeId>>, edges |-> <<>>], NoChanges)
            /\ mutations' = mutations + 1
       ELSE UNCHANGED <<nodes, metaVersion, currentVersion, versionHistory,
                        allRecords, mutations, websocket>>
    /\ UNCHANGED <<edges, analytics, now>>

addNodes(batch) ==
    /\ thisAddNodes(batch)
    /\ Called("addNodes", batch, FALSE)

addEdges(batch) ==
    /\ thisAddEdges(batch)
    /\ Called("addEdges", batch, FALSE)

removeNodes(nodeIds) ==
    /\ thisRemoveNodes(nodeIds)
    /\ Called("removeNodes", nodeIds, FALSE)

updateNode(nodeId, updates) ==
    /\ thisUpdateNode(nodeId, updates)
    /\ Called("updateNode", [id |-> nodeId, updates |-> updates], FALSE)

\* websocket.onmessage: JSON.parse(event.data), then handleRealtimeUpdate,
\* which runs the method the message names on its payload
handleRealtimeUpdate(data) ==
    CASE data.type = "nodes-added" -> thisAddNodes(data.payload)
      [] data.type = "edges-added" -> thisAddEdges(data.payload)
      [] data.type = "node-updated" ->
            thisUpdateNode(data.payload.id, data.payload.updates)
      [] data.type = "nodes-removed" -> thisRemoveNodes(data.payload)

onmessage ==
    /\ inbound # <<>>
    /\ handleRealtimeUpdate(Head(inbound).value)
    /\ inbound' = Tail(inbound)
    /\ lastCall' = [op |-> "handleRealtimeUpdate", arg |-> Head(inbound).value,
                    threw |-> FALSE, pre |-> Pre,
                    prev |-> [op |-> lastCall.op, arg |-> lastCall.arg,
                              pre |-> lastCall.pre]]
    /\ calls' = calls + 1
    /\ UNCHANGED peer

\* the socket's connection is established
onopen ==
    /\ websocket.readyState = "CONNECTING"
    /\ websocket' = [websocket EXCEPT !.readyState = "OPEN"]
    /\ UNCHANGED <<nodes, edges, metaVersion, currentVersion, versionHistory,
                   analytics, now, mutations, allRecords, lastCall, calls,
                   inbound, peer>>

(* The engine at the other end of the relay runs the same code.  Of its    *)
(* state the model keeps the graph, the number of version records it has   *)
(* made and its socket's state; what it sends, the relay delivers to this  *)
(* engine's socket.                                                        *)

\* the peer's handleRealtimeUpdate: its store after the method ran
peerHandled(data) ==
    CASE data.type = "nodes-added" ->
            [peer EXCEPT
               !.nodes = @ \o SelectSeq(data.payload,
                                LAMBDA n : n.id \notin Ids(peer.nodes)),
               !.records = @ + 1]
      [] data.type = "edges-added" ->
            [peer EXCEPT
               !.edges = @ \o SelectSeq(data.payload,
                                LAMBDA e : e.id \notin Ids(peer.edges)),
               !.records = @ + 1]
      [] data.type = "node-updated" ->
            IF FindIndex(peer.nodes, data.payload.id) # 0
            THEN [peer EXCEPT
                    !.nodes[FindIndex(peer.nodes, data.payload.id)] =
                        Spread(@, data.payload.updates),
                    !.records = @ + 1]
            ELSE peer
      [] data.type = "nodes-removed" ->
            [peer EXCEPT
               !.nodes = SelectSeq(@, LAMBDA n :
                                         n.id \notin Range(data.payload)),
               !.edges = RemoveIncident(@, data.payload),
               !.records = @ + 1]

\* what the peer's method hands to broadcastUpdate: the elements that
\* passed its id filter, or the payload it was given
peerBroadcast(data) ==
    CASE data.type = "nodes-added" ->
            Broadcast(peer.readyState, data.type,
                SelectSeq(data.payload,
                          LAMBDA n : n.id \notin Ids(peer.nodes)))
      [] data.type = "edges-added" ->
            Broadcast(peer.readyState, data.type,
                SelectSeq(data.payload,
                          LAMBDA e : e.id \notin Ids(peer.edges)))
      [] data.type = "node-updated" ->
            IF FindIndex(peer.nodes, data.payload.id) # 0
            THEN Broadcast(peer.readyState, data.type, data.payload)
            ELSE <<>>
      [] data.type = "nodes-removed" ->
            Broadcast(peer.readyState, data.type, data.payload)

\* the relay hands this engine's oldest message to the peer's socket, whose
\* onmessage handles it; the relay brings back what the peer sends
peerOnmessage ==
    /\ websocket.sent # <<>>
    /\ peer.readyState = "OPEN"
    /\ peer' = peerHandled(Head(websocket.sent).value)
    /\ inbound' = inbound \o peerBroadcast(Head(websocket.sent).value)
    /\ websocket' = [websocket EXCEPT !.sent = Tail(@)]
    /\ UNCHANGED <<nodes, edges, metaVersion, currentVersion, versionHistory,
                   analytics, now, mutations, allRecords, lastCall, calls>>

peerOnopen ==
    /\ peer.readyState = "CONNECTING"
    /\ peer' = [peer EXCEPT !.readyState = "OPEN"]
    /\ UNCHANGED <<nodes, edges, metaVersion, currentVersion, versionHistory,
                   analytics, now, mutations, allRecords, lastCall, calls,
                   websocket, inbound>>

\* import(): parse, apply the merge strategy, then record one version.
\* mergeData and appendData read newData.nodes and then newData.edges: on
\* an object without nodes they throw a TypeError before any write, on one
\* without edges they throw after the nodes were written, and import()
\* rejects without reaching calculateAnalytics or createVersionSnapshot.
\* With 'replace' this.data becomes the parsed object: metadata.version is
\* then the parsed one until createVersionSnapshot overwrites it.
import(importData) ==
    IF ParseThrows(importData)
    THEN /\ Called("import", importData, TRUE)
         /\ UNCHANGED <<nodes, edges, metaVersion, currentVersion,
                        versionHistory, analytics, now, mutations, allRecords,
                        websocket>>
    ELSE LET parsedData == Parse(importData)
             strategy == importData.mergeStrategy
             Apply(current, imported) ==
                 CASE strategy = "replace" -> imported
                   [] strategy = "merge" -> mergeData(current, imported)
                   [] strategy = "append" -> appendData(current, imported) IN
         IF strategy # "replace" /\ {"nodes", "edges"} \ DOMAIN parsedData # {}
         THEN /\ nodes' = IF "nodes" \in DOMAIN parsedData
                          THEN Apply(nodes, parsedData.nodes)
                          ELSE nodes
              /\ Called("import", importData, TRUE)
              /\ UNCHANGED <<edges, metaVersion, currentVersion,
                             versionHistory, analytics, now, mutations,
                             allRecords, websocket>>
         ELSE /\ nodes' = Apply(nodes, parsedData.nodes)
              /\ edges' = Apply(edges, parsedData.edges)
              /\ analytics' = calculateAnalytics(nodes', edges')
              /\ createVersionSnapshot("Imported data", NoChanges, NoChanges,
                                       NoChanges)
              /\ mutations' = mutations + 1
              /\ Called("import", importData, FALSE)
              /\ UNCHANGED <<now, websocket>>

\* export(format).data: for 'json' the text JSON.stringify(this.data), which
\* JSON.parse reads back as an object with the same nodes, edges and
\* metadata (a node or edge of the model carries strings only, and JSON
\* text carries a string unchanged); the texts of the other formats are not
\* JSON
export(format) ==
    [format |-> format,
     data |-> IF format = "json"
              THEN JsonText([nodes |-> nodes, edges |-> edges,
                             version |-> metaVersion])
              ELSE Garbage,
     version |-> currentVersion]

\* const x = await engine.export('json');
\* await engine.import({format: 'json', data: x.data,
\*                      options: {mergeStrategy: 'replace'}});
callerReimportsExport ==
    import([format |-> "json", data |-> export("json").data,
            mergeStrategy |-> "replace"])

\* revertToVersion that falls back to the initial version on an unknown id
revertToVersion_NoThrow(versionId) ==
    LET index == FindIndex(versionHistory, versionId)
        version == IF index = 0 THEN InitialVersion
                   ELSE versionHistory[index].version IN
    /\ currentVersion' = version
    /\ metaVersion' = version
    /\ Called("revertToVersion", versionId, FALSE)
    /\ UNCHANGED <<nodes, edges, versionHistory, analytics, now, mutations,
                   allRecords, websocket>>

\* a revert that also drops the records made after the one it names
revertToVersion_Truncates(versionId) ==
    LET index == FindIndex(versionHistory, versionId) IN
    /\ IF index = 0
       THEN /\ Called("revertToVersion", versionId, TRUE)
            /\ UNCHANGED <<currentVersion, metaVersion, versionHistory>>
       ELSE /\ currentVersion' = versionHistory[index].version
            /\ metaVersion' = versionHistory[index].version
            /\ versionHistory' = SubSeq(versionHistory, 1, index)
            /\ Called("revertToVersion", versionId, FALSE)
    /\ UNCHANGED <<nodes, edges, analytics, now, mutations, allRecords, websocket>>

revertToVersion(versionId) ==
    LET index == FindIndex(versionHistory, versionId) IN
    /\ IF index = 0
       THEN /\ Called("revertToVersion", versionId, TRUE)
            /\ UNCHANGED <<currentVersion, metaVersion>>
       ELSE /\ currentVersion' = versionHistory[index].version
            /\ metaVersion' = versionHistory[index].version
            /\ Called("revertToVersion", versionId, FALSE)
    /\ UNCHANGED <<nodes, edges, versionHistory, analytics, now, mutations,
                   allRecords, websocket>>

\* time passes between two calls
Tick ==
    /\ now < MaxClock
    /\ now' = now + 1
    /\ UNCHANGED <<nodes, edges, metaVersion, currentVersion, versionHistory,
                   analytics, mutations, allRecords, lastCall, calls,
                   websocket, inbound, peer>>

Init ==
    /\ nodes = <<>>
    /\ edges = <<>>
    /\ metaVersion = InitialVersion
    /\ currentVersion = InitialVersion
    /\ versionHistory = <<>>
    /\ analytics = NoAnalytics
    /\ now = 0
    /\ mutations = 0
    /\ calls = 0
    /\ allRecords = <<>>
    /\ lastCall = [op |-> "new", arg |-> <<>>, threw |-> FALSE,
                   pre |-> Pre,
                   prev |-> [op |-> "none", arg |-> <<>>, pre |-> Pre]]
    /\ websocket = NoSocket
    /\ inbound = <<>>
    /\ peer = NoPeer

(* The store API driven with varied arguments, a few calls deep.           *)
Next ==
    \/ /\ calls < MaxCalls
       /\ \E batch \in NodeBatches : addNodes(batch)
    \/ /\ calls < MaxCalls
       /\ \E batch \in EdgeBatches : addEdges(batch)
    \/ /\ calls < MaxCalls
       /\ \E nodeIds \in IdLists : removeNodes(nodeIds)
    \/ /\ calls < MaxCalls
       /\ \E nodeId \in {"a", "b"}, updates \in Updates :
             updateNode(nodeId, updates)
    \/ /\ calls < MaxCalls
       /\ \E importData \in ImportInputs : import(importData)
    \/ /\ calls < MaxCalls
       /\ callerReimportsExport

Spec == Init /\ [][Next]_vars

(* Every operation that touches the version, with the clock and            *)
(* revertToVersion, on few arguments and one call deeper.                  *)
NextVersion ==
    \/ /\ calls < MaxVersionCalls
       /\ \E batch \in VersionNodeBatches : addNodes(batch)
    \/ /\ calls < MaxVersionCalls
       /\ addEdges(<<[id |-> "e1", source |-> "a", target |-> "b"]>>)
    \/ /\ calls < MaxVersionCalls
       /\ removeNodes(<<"a">>)
    \/ /\ calls < MaxVersionCalls
       /\ \E nodeId \in {"a", "b"} : updateNode(nodeId, [label |-> "L2"])
    \/ /\ calls < MaxVersionCalls
       /\ \E importData \in VersionImportInputs : import(importData)
    \/ /\ calls < MaxVersionCalls
       /\ \E versionId \in VersionIds : revertToVersion(versionId)
    \/ Tick

SpecVersion == Init /\ [][NextVersion]_vars

(* Two engines with config.realtime set, joined by a relay: this engine's  *)
(* API is called, the sockets open, and each socket's onmessage handles    *)
(* what the relay delivers.                                                *)
InitRealtime ==
    /\ nodes = <<>>
    /\ edges = <<>>
    /\ metaVersion = InitialVersion
    /\ currentVersion = InitialVersion
    /\ versionHistory = <<>>
    /\ analytics = NoAnalytics
    /\ now = 0
    /\ mutations = 0
    /\ calls = 0
    /\ allRecords = <<>>
    /\ lastCall = [op |-> "new", arg |-> <<>>, threw |-> FALSE,
                   pre |-> Pre,
                   prev |-> [op |-> "none", arg |-> <<>>, pre |-> Pre]]
    /\ websocket = [readyState |-> "CONNECTING", sent |-> <<>>]
    /\ inbound = <<>>
    /\ peer = [nodes |-> <<>>, edges |-> <<>>, records |-> 0,
               readyState |-> "CONNECTING"]

NextRealtime ==
    \/ /\ calls < MaxRealtimeCalls
       /\ \E batch \in VersionNodeBatches : addNodes(batch)
    \/ /\ calls < MaxRealtimeCalls
       /\ addEdges(<<[id |-> "e1", source |-> "a", target |-> "b"]>>)
    \/ /\ calls < MaxRealtimeCalls
       /\ removeNodes(<<"a">>)
    \/ /\ calls < MaxRealtimeCalls
       /\ updateNode("a", [label |-> "L2"])
    \/ onopen
    \/ peerOnopen
    \/ /\ calls < MaxRealtimeCalls
       /\ onmessage
    \/ /\ peer.records < MaxRealtimeCalls
       /\ peerOnmessage

SpecRealtime == InitRealtime /\ [][NextRealtime]_vars

(* ------------------- what the accessors hand out ---------------------- *)
(* JavaScript hands out objects by reference.  A value an accessor         *)
(* returns is modelled as the place it refers to: the store's own list,    *)
(* or the positions in this.data.nodes / this.data.edges of the objects    *)
(* it holds; a write through such a reference is a write to that place.    *)

\* the positions of the elements of the array s, in order
Positions(s) == [i \in DOMAIN s |-> i]

\* return this.versionHistory;
getVersionHistory == "this.versionHistory"

\* new arrays of the store's own node and edge objects; metadata is spread
extractSubgraph(nodeIds) ==
    [ nodes    |-> SelectSeq(Positions(nodes),
                             LAMBDA i : nodes[i].id \in Range(nodeIds)),
      edges    |-> SelectSeq(Positions(edges),
                             LAMBDA i : /\ edges[i].source \in Range(nodeIds)
                                        /\ edges[i].target \in Range(nodeIds)),
      metadata |-> [version |-> metaVersion, name |-> "Subgraph"] ]

\* const h = engine.getVersionHistory(); h.pop();
callerPopsHistory ==
    /\ versionHistory # <<>>
    /\ IF getVersionHistory = "this.versionHistory"
       THEN versionHistory' = SubSeq(versionHistory, 1, Len(versionHistory) - 1)
       ELSE UNCHANGED versionHistory
    /\ Called("caller writes", "getVersionHistory", FALSE)
    /\ UNCHANGED <<nodes, edges, metaVersion, currentVersion, analytics, now,
                   mutations, allRecords, websocket>>

\* const g = engine.query({type: 'subgraph', parameters: {nodeIds}});
\* g.nodes[0].label = 'changed';
callerWritesSubgraphNode(nodeIds) ==
    LET g == extractSubgraph(nodeIds) IN
    /\ g.nodes # <<>>
    /\ nodes' = [nodes EXCEPT ![g.nodes[1]].label = "changed"]
    /\ Called("caller writes", "extractSubgraph", FALSE)
    /\ UNCHANGED <<edges, metaVersion, currentVersion, versionHistory,
                   analytics, now, mutations, allRecords, websocket>>

\* getAnalytics(): this.analytics || this.calculateAnalytics(); the
\* computation stores its result in this.analytics
getAnalytics ==
    /\ analytics' = IF analytics = NoAnalytics
                    THEN calculateAnalytics(nodes, edges)
                    ELSE analytics
    /\ Called("getAnalytics", <<>>, FALSE)
    /\ UNCHANGED <<nodes, edges, metaVersion, currentVersion, versionHistory,
                   now, mutations, allRecords, websocket>>

QueryTypes == {"path", "neighbors", "subgraph", "pattern", "analytics"}

\* the value query(q) returns, for a supported type
queryResult(q) ==
    CASE q.type = "path" ->
            findPath(q.parameters.source, q.parameters.target, edges)
      [] q.type = "neighbors" ->
            getNeighbors(q.parameters.nodeId,
                         IF q.parameters.depth = 0 THEN 1
                         ELSE q.parameters.depth,
                         edges)
      [] q.type = "subgraph" -> extractSubgraph(q.parameters.nodeIds)
      [] q.type = "pattern" -> <<>>
      [] q.type = "analytics" ->
            IF analytics = NoAnalytics THEN calculateAnalytics(nodes, edges)
            ELSE analytics

\* a query that leaves the subgraph it extracted in the store
query_KeepsSubgraph(q) ==
    /\ nodes' = IF q.type = "subgraph"
                THEN SelectSeq(nodes,
                        LAMBDA n : n.id \in Range(q.parameters.nodeIds))
                ELSE nodes
    /\ Called("query", q, q.type \notin QueryTypes)
    /\ UNCHANGED <<edges, metaVersion, currentVersion, versionHistory,
                   analytics, now, mutations, allRecords, websocket>>

\* query(q): the switch over q.type; only 'analytics' writes, and only the
\* this.analytics cache
query(q) ==
    /\ analytics' = IF q.type = "analytics" THEN queryResult(q) ELSE analytics
    /\ Called("query", q, q.type \notin QueryTypes)
    /\ UNCHANGED <<nodes, edges, metaVersion, currentVersion, versionHistory,
                   now, mutations, allRecords, websocket>>

\* applyFilters(filters): renderFilteredData puts the filtered graph in
\* this.data, calls updateVisualization() and then puts the original back.
\* Without a try/finally the last assignment is skipped when the rendering
\* backend throws; whether it does is the environment's choice.
applyFilters(filters, renderThrows) ==
    LET filteredData == filterData(nodes, edges, filters) IN
    /\ nodes' = IF renderThrows THEN filteredData.nodes ELSE nodes
    /\ edges' = IF renderThrows THEN filteredData.edges ELSE edges
    /\ Called("applyFilters", filters, renderThrows)
    /\ UNCHANGED <<metaVersion, currentVersion, versionHistory, analytics,
                   now, mutations, allRecords, websocket>>

\* installPlugin(plugin): this.data = plugin.hooks.onDataUpdate(this.data);
\* no analytics, no version record
installPlugin(plugin) ==
    /\ edges' = IF plugin.onDataUpdate = "without edges" THEN <<>> ELSE edges
    /\ Called("installPlugin", plugin, FALSE)
    /\ UNCHANGED <<nodes, metaVersion, currentVersion, versionHistory,
                   analytics, now, mutations, allRecords, websocket>>

(* The component's effects (src/unnamed/part_008): the mount effect makes  *)
(* three calls and every change of the project data four more.  An         *)
(* effect runs to its end before anything else does, so the number of      *)
(* calls made tells the position in it.                                    *)
MountCalls == 3

RefreshCalls == 4

\* the value getAnalytics() returns
getAnalyticsValue ==
    IF analytics = NoAnalytics THEN calculateAnalytics(nodes, edges)
    ELSE analytics

\* const graphData = convertProjectDataToGraph(prds, deliverables);
\* engine.addNodes(graphData.nodes); engine.addEdges(graphData.edges);
\* ... engine.getAnalytics()
mountEffect ==
    /\ calls < MountCalls
    /\ CASE calls = 0 -> \E graphData \in ConvertedGraphs :
                            addNodes(graphData.nodes)
         [] calls = 1 -> \E graphData \in ConvertedGraphs :
                            /\ graphData.nodes = lastCall.arg
                            /\ addEdges(graphData.edges)
         [] calls = 2 -> getAnalytics

\* engine.removeNodes(engine.getAnalytics().criticalPath || []);
\* engine.addNodes(graphData.nodes); engine.addEdges(graphData.edges);
\* engine.getAnalytics()
dataChangeEffect ==
    /\ calls >= MountCalls
    /\ calls < MountCalls + RefreshCalls * MaxRefreshes
    /\ CASE (calls - MountCalls) % RefreshCalls = 0 ->
               removeNodes(getAnalyticsValue.criticalPath)
         [] (calls - MountCalls) % RefreshCalls = 1 ->
               \E graphData \in ConvertedGraphs : addNodes(graphData.nodes)
         [] (calls - MountCalls) % RefreshCalls = 2 ->
               \E graphData \in ConvertedGraphs :
                  /\ graphData.nodes = lastCall.arg
                  /\ addEdges(graphData.edges)
         [] (calls - MountCalls) % RefreshCalls = 3 -> getAnalytics

NextRefresh ==
    \/ mountEffect
    \/ dataChangeEffect

SpecRefresh == Init /\ [][NextRefresh]_vars

(* Long runs: a few varied calls, then the same call until the history     *)
(* has passed its limit.                                                   *)
NextHistory ==
    \/ /\ calls < MaxVaried
       /\ addEdges(<<[id |-> "e1", source |-> "a", target |-> "b"]>>)
    \/ /\ calls < MaxVaried
       /\ removeNodes(<<"a">>)
    \/ /\ calls < MaxVaried
       /\ updateNode("a", [label |-> "L2"])
    \/ /\ calls < MaxVaried
       /\ import([format |-> "json", data |-> Garbage,
                  mergeStrategy |-> "replace"])
    \/ /\ calls < MaxHistoryCalls
       /\ addNodes(<<[id |-> "a", label |-> "L1"]>>)

SpecHistory == Init /\ [][NextHistory]_vars

(* The store API together with a caller that writes to what the accessors  *)
(* returned.                                                               *)
NextAlias ==
    \/ /\ calls < MaxAliasCalls
       /\ \E batch \in VersionNodeBatches : addNodes(batch)
    \/ /\ calls < MaxAliasCalls
       /\ addEdges(<<[id |-> "e1", source |-> "a", target |-> "b"]>>)
    \/ /\ calls < MaxAliasCalls
       /\ removeNodes(<<"a">>)
    \/ /\ calls < MaxAliasCalls
       /\ callerPopsHistory
    \/ /\ calls < MaxAliasCalls
       /\ \E nodeIds \in IdLists : callerWritesSubgraphNode(nodeIds)

SpecAlias == Init /\ [][NextAlias]_vars

(* The store API on few arguments, together with the read operations.      *)
NextQuery ==
    \/ /\ calls < MaxQueryCalls
       /\ \E batch \in VersionNodeBatches : addNodes(batch)
    \/ /\ calls < MaxQueryCalls
       /\ addEdges(<<[id |-> "e1", source |-> "a", target |-> "b"]>>)
    \/ /\ calls < MaxQueryCalls
       /\ removeNodes(<<"a">>)
    \/ /\ calls < MaxQueryCalls
       /\ updateNode("a", [label |-> "L2"])
    \/ /\ calls < MaxQueryCalls
       /\ \E plugin \in Plugins : installPlugin(plugin)
    \/ /\ calls < MaxQueryCalls
       /\ getAnalytics
    \/ /\ calls < MaxQueryCalls
       /\ \E q \in Queries : query(q)

SpecQuery == Init /\ [][NextQuery]_vars

(* A graph is loaded the way the component loads one, addNodes and then   *)
(* addEdges, and is then read once.                                        *)
NextGraph ==
    \/ /\ lastCall.op = "new"
       /\ \E batch \in GraphNodeBatches : addNodes(batch)
    \/ /\ lastCall.op = "addNodes"
       /\ \E batch \in GraphEdgeBatches(Ids(nodes)) : addEdges(batch)
    \/ /\ lastCall.op = "addEdges"
       /\ getAnalytics
    \/ /\ lastCall.op = "addEdges"
       /\ \E q \in GraphQueries : query(q)

SpecGraph == Init /\ [][NextGraph]_vars

(* The example graph is loaded and a list of filters is applied to it.      *)
NextFilter ==
    \/ /\ lastCall.op = "new"
       /\ addNodes(FilterNodes)
    \/ /\ lastCall.op = "addNodes"
       /\ addEdges(FilterEdges)
    \/ /\ lastCall.op = "addEdges"
       /\ \E filters \in FilterLists, renderThrows \in BOOLEAN :
             applyFilters(filters, renderThrows)

SpecFilter == Init /\ [][NextFilter]_vars

(* ======================== properties of the store ===================== *)

\* version strings compared part by part
VersionLess(v, w) ==
    \/ v[1] < w[1]
    \/ v[1] = w[1] /\ v[2] < w[2]
    \/ v[1] = w[1] /\ v[2] = w[2] /\ v[3] < w[3]

StoreOf(st) == <<st.nodes, st.edges, st.currentVersion, st.versionHistory>>

CountId(s, id) == Cardinality({ i \in DOMAIN s : s[i].id = id })

(* C1: node ids are unique in every reachable state, and re-adding an      *)
(* existing id with addNodes leaves the existing node as it was.           *)
C1_NodeIdsUnique ==
    /\ \A i, j \in DOMAIN nodes : nodes[i].id = nodes[j].id => i = j
    /\ lastCall.op = "addNodes" =>
          \A i \in DOMAIN lastCall.pre.nodes : nodes[i] = lastCall.pre.nodes[i]

(* C2: addNodes([n]) called twice in a row, n not in the store before,     *)
(* leaves one node with id n.id and adds one history record, not two.      *)
C2_IdempotentAddOneRecord ==
    ( /\ lastCall.op = "addNodes"
      /\ lastCall.prev.op = "addNodes"
      /\ Len(lastCall.arg) = 1
      /\ lastCall.arg = lastCall.prev.arg
      /\ lastCall.arg[1].id \notin Ids(lastCall.prev.pre.nodes) )
    => /\ CountId(nodes, lastCall.arg[1].id) = 1
       /\ Len(versionHistory) = Len(lastCall.prev.pre.versionHistory) + 1

(* C3: after removeNodes(ids) no edge has a removed id as source or        *)
(* target, and every edge that was not incident to a removed id is still   *)
(* in the edge collection.                                                 *)
C3_CascadeDelete ==
    lastCall.op = "removeNodes" =>
       LET removed == Range(lastCall.arg)
           before == lastCall.pre.edges IN
       /\ \A i \in DOMAIN edges :
             edges[i].source \notin removed /\ edges[i].target \notin removed
       /\ \A i \in DOMAIN before :
             (before[i].source \notin removed /\ before[i].target \notin removed)
             => \E j \in DOMAIN edges : edges[j] = before[i]

\* removeNodes has removed an incident edge and kept another one
C3_Witness ==
    /\ lastCall.op = "removeNodes"
    /\ edges # <<>>
    /\ Len(edges) < Len(lastCall.pre.edges)

\* the calls that change the structure of the graph
StructuralMutation ==
    \/ lastCall.op \in {"addNodes", "addEdges", "removeNodes"}
    \/ /\ lastCall.op = "updateNode"
       /\ lastCall.arg.id \in Ids(lastCall.pre.nodes)

C5_HistoryVersionsIncreasing ==
    /\ \A i, j \in DOMAIN versionHistory :
          i < j => VersionLess(versionHistory[i].version,
                               versionHistory[j].version)
    /\ versionHistory =
          SubSeq(allRecords, Len(allRecords) - Len(versionHistory) + 1,
                 Len(allRecords))

\* the number of ends of edges between current nodes that touch id
LiveDegree(id) ==
    LET live == SelectSeq(edges, LAMBDA e :
                   e.source \in Ids(nodes) /\ e.target \in Ids(nodes)) IN
    Len(SelectSeq(live, LAMBDA e : e.source = id))
    + Len(SelectSeq(live, LAMBDA e : e.target = id))

(* C7: an edge whose source or target is not a current node contributes    *)
(* to no result: the degree table, bottlenecks, clusters, critical path,   *)
(* findPath and getNeighbors count only edges between current nodes and    *)
(* return only ids of current nodes.                                       *)
C7_DanglingEdgesFiltered ==
    LET N == Ids(nodes)
        degs == degrees(nodes, edges)
        a == calculateAnalytics(nodes, edges)
        clusters == findClusters(nodes, edges) IN
    /\ MapKeys(degs) \subseteq N
    /\ \A id \in N : MapGetOr0(degs, id) = LiveDegree(id)
    /\ Range(a.bottlenecks) \subseteq N
    /\ Range(a.criticalPath) \subseteq N
    /\ \A i \in DOMAIN clusters : Range(clusters[i]) \subseteq N
    /\ \A s, t \in N : Range(findPath(s, t, edges)) \subseteq N
    /\ \A s \in N, d \in 0..2 : Range(getNeighbors(s, d, edges)) \subseteq N

(* C8: addNodes / addEdges given an element whose id is the empty string   *)
(* throws a validation error and leaves nodes, edges, version and history  *)
(* as they were.                                                           *)
C8_EmptyIdRejected ==
    ( /\ lastCall.op \in {"addNodes", "addEdges"}
      /\ \E i \in DOMAIN lastCall.arg : lastCall.arg[i].id = "" )
    => /\ lastCall.threw
       /\ store = StoreOf(lastCall.pre)

(* C9: updateNode(id, updates) with an id that is not in the store throws  *)
(* nothing and leaves nodes, edges, version and history unchanged; with an *)
(* existing id it merges the given fields into that node and leaves every  *)
(* other node and every edge unchanged.                                    *)
C9_UpdateNodeFrame ==
    lastCall.op = "updateNode" =>
       LET id == lastCall.arg.id
           updates == lastCall.arg.updates
           before == lastCall.pre.nodes IN
       IF id \notin Ids(before)
       THEN ~lastCall.threw /\ store = StoreOf(lastCall.pre)
       ELSE /\ edges = lastCall.pre.edges
            /\ DOMAIN nodes = DOMAIN before
            /\ \E k \in DOMAIN before :
                  /\ before[k].id = id
                  /\ \A f \in DOMAIN updates : nodes[k][f] = updates[f]
                  /\ \A f \in DOMAIN before[k] \ DOMAIN updates :
                        nodes[k][f] = before[k][f]
                  /\ \A j \in DOMAIN before \ {k} : nodes[j] = before[j]

\* updateNode has changed one of several nodes of a graph that has an edge
C9_Witness ==
    /\ lastCall.op = "updateNode"
    /\ lastCall.arg.id \in Ids(lastCall.pre.nodes)
    /\ nodes # lastCall.pre.nodes
    /\ Len(nodes) > 1
    /\ edges # <<>>

Min(x, y) == IF x < y THEN x ELSE y

C10_SnapshotValueSemantics ==
    lastCall.op = "caller writes" => store = StoreOf(lastCall.pre)

(* --------------------------- import and export ----------------------- *)

\* C11: a failing import never changes the live store: whenever import()
\* fails (an unsupported format, a text that cannot be parsed, parsed data
\* that lacks a required field) the nodes, the edges, the current version
\* and the history list are what they were before the call.
C11_FailedImportLeavesStore ==
    (lastCall.op = "import" /\ lastCall.threw)
        => store = StoreOf(lastCall.pre)

\* C12: an import with the 'append' strategy drops id collisions: for every
\* imported node or edge whose id the store already holds (once), the store
\* holds exactly one element with that id afterwards.
C12_AppendDropsCollisions ==
    (/\ lastCall.op = "import"
     /\ ~lastCall.threw
     /\ lastCall.arg.mergeStrategy = "append")
        => LET imported == Parse(lastCall.arg) IN
           /\ \A id \in Ids(imported.nodes) :
                 CountId(lastCall.pre.nodes, id) = 1 => CountId(nodes, id) = 1
           /\ \A id \in Ids(imported.edges) :
                 CountId(lastCall.pre.edges, id) = 1 => CountId(edges, id) = 1

\* the last call imported, with 'replace', the json export of the store it
\* was made on
ReimportedExport ==
    /\ lastCall.op = "import"
    /\ ~lastCall.threw
    /\ lastCall.arg.format = "json"
    /\ lastCall.arg.mergeStrategy = "replace"
    /\ lastCall.arg.data.value.nodes = lastCall.pre.nodes
    /\ lastCall.arg.data.value.edges = lastCall.pre.edges
    /\ lastCall.arg.data.value.version = lastCall.pre.metaVersion

\* C13: export/import round trip: a json export followed by a 'replace'
\* import of that export yields a store whose nodes, edges and metadata
\* (the version included) are those before the export.
C13_ExportImportRoundTrip ==
    ReimportedExport
        => /\ nodes = lastCall.pre.nodes
           /\ edges = lastCall.pre.edges
           /\ metaVersion = lastCall.pre.metaVersion

\* C14: revertToVersion(versionId) with an id that matches no record of the
\* history list throws the not-found error and leaves the current version,
\* the metadata, the nodes, the edges and the history unchanged.
C14_RevertUnknownIdFails ==
    (/\ lastCall.op = "revertToVersion"
     /\ lastCall.arg \notin Ids(lastCall.pre.versionHistory))
        => /\ lastCall.threw
           /\ store = StoreOf(lastCall.pre)
           /\ metaVersion = lastCall.pre.metaVersion

\* an unknown id was asked for while the history held records and the
\* version had moved on from the initial one
C14_Witness ==
    /\ lastCall.op = "revertToVersion"
    /\ lastCall.pre.versionHistory # <<>>
    /\ lastCall.arg \notin Ids(lastCall.pre.versionHistory)
    /\ lastCall.threw
    /\ currentVersion # InitialVersion

(* ------------------------------ reading ------------------------------ *)

\* C15: analytics and queries are read-only: getAnalytics and every query
\* (path, neighbors, subgraph, pattern, analytics; an unsupported one
\* throws) leave the nodes, the edges, the current version and the history
\* list as they were.
C15_ReadsLeaveStore ==
    lastCall.op \in {"getAnalytics", "query"}
        => /\ store = StoreOf(lastCall.pre)
           /\ metaVersion = lastCall.pre.metaVersion

\* a subgraph query that selects one of the two nodes the store holds
C15_Witness ==
    /\ lastCall.op = "query"
    /\ lastCall.arg.type = "subgraph"
    /\ Ids(nodes) = {"a", "b"}
    /\ Len(queryResult(lastCall.arg).nodes) > 0
    /\ Len(queryResult(lastCall.arg).nodes) < Len(nodes)

(* ------------------------- analytics of a graph ----------------------- *)

\* the ids one directed edge away from a set of ids
Successors(S, es) ==
    { es[i].target : i \in { j \in DOMAIN es : es[j].source \in S } }

RECURSIVE Within(_, _, _)
\* the ids that directed paths of at most k edges reach from the set S
Within(S, k, es) ==
    IF k = 0 THEN S ELSE Within(S \cup Successors(S, es), k - 1, es)

\* id lies on a directed cycle
OnCycle(id, es) == id \in Within(Successors({id}, es), Len(es), es)

Acyclic(es) == \A i \in DOMAIN es : ~OnCycle(es[i].source, es)

UniqueIds(s) == \A i, j \in DOMAIN s : s[i].id = s[j].id => i = j

NoDangling(ns, es) ==
    \A i \in DOMAIN es : es[i].source \in Ids(ns) /\ es[i].target \in Ids(ns)

\* the positions of id in the sequence of ids p
Places(p, id) == { i \in DOMAIN p : p[i] = id }

\* C16: for a store whose directed edges are acyclic (unique node ids, no
\* dangling edges) the critical path is a topological order: it holds
\* every node id exactly once, and u before v for every edge u -> v.
C16_CriticalPathTopological ==
    (Acyclic(edges) /\ UniqueIds(nodes) /\ NoDangling(nodes, edges))
        => LET p == findCriticalPath(nodes, edges) IN
           /\ Range(p) = Ids(nodes)
           /\ \A id \in Ids(nodes) : Cardinality(Places(p, id)) = 1
           /\ \A i \in DOMAIN edges :
                 \A a \in Places(p, edges[i].source),
                    b \in Places(p, edges[i].target) : a < b

\* an acyclic graph on all four nodes whose three edges were not added in
\* the order of the path they form
C16_Witness ==
    /\ lastCall.op = "getAnalytics"
    /\ Len(nodes) = 4
    /\ Len(edges) = 3
    /\ Acyclic(edges)
    /\ analytics.criticalPath = <<"D", "C", "B", "A">>

\* C17: cycle tolerance: on a graph with a directed cycle the critical-path
\* computation ends, no node on a cycle is in its result (A -> B -> C -> A
\* gives the empty result), and the counts, the density, the degree
\* metrics and the clusters are computed all the same.
C17_CycleTolerance ==
    ~Acyclic(edges)
        => LET a == calculateAnalytics(nodes, edges) IN
           /\ \A id \in Ids(nodes) :
                 OnCycle(id, edges) => id \notin Range(a.criticalPath)
           /\ a.nodeCount = Len(nodes)
           /\ a.edgeCount = Len(edges)
           /\ Len(nodes) > 1
                 => a.density.num * Len(nodes) * (Len(nodes) - 1)
                       = 2 * Len(edges) * a.density.den
           /\ a.metrics.maxDegree >= 2
           /\ a.clusters \in 0..Len(nodes)

\* the analytics of the graph A -> B -> C -> A
C17_Witness ==
    /\ lastCall.op = "getAnalytics"
    /\ MapIds(nodes) = <<"A", "B", "C">>
    /\ [i \in DOMAIN edges |-> <<edges[i].source, edges[i].target>>]
          = << <<"A", "B">>, <<"B", "C">>, <<"C", "A">> >>
    /\ analytics.criticalPath = <<>>
    /\ analytics.density = Ratio(6, 6)
    /\ analytics.metrics.maxDegree = 2

\* the ids one edge away from a set of ids, the edge taken in either
\* direction
Adjacent(S, es) ==
    Successors(S, es)
       \cup { es[i].source : i \in { j \in DOMAIN es : es[j].target \in S } }

RECURSIVE Component(_, _, _)
\* the ids that paths of at most k edges, taken in either direction, reach
Component(S, k, es) ==
    IF k = 0 THEN S ELSE Component(S \cup Adjacent(S, es), k - 1, es)

\* the clusters (by position) that hold id
ClustersOf(cs, id) == { i \in DOMAIN cs : id \in Range(cs[i]) }

\* C18: findClusters returns a partition of the node ids (every node id in
\* exactly one cluster, no cluster empty, nothing but node ids) in which
\* two nodes share a cluster exactly when one is reachable from the other
\* with every edge taken as bidirectional; the analytics field 'clusters'
\* is the number of these components.
C18_ClustersPartition ==
    LET cs == findClusters(nodes, edges) IN
    /\ \A id \in Ids(nodes) : Cardinality(ClustersOf(cs, id)) = 1
    /\ \A i \in DOMAIN cs : cs[i] # <<>> /\ Range(cs[i]) \subseteq Ids(nodes)
    /\ \A a, b \in Ids(nodes) :
          (ClustersOf(cs, a) = ClustersOf(cs, b))
             <=> (b \in Component({a}, Len(edges), edges))
    /\ calculateAnalytics(nodes, edges).clusters
          = Cardinality({ Component({id}, Len(edges), edges) : id \in Ids(nodes) })

\* C19: with N nodes and E edges the analytics report the density
\* 2E / (N (N - 1)) when N > 1 and 0 otherwise, and the average degree
\* 2E / N, as exact ratios; the path of four nodes and three edges has
\* average degree 3/2 and density 1/2.
C19_DensityAndAverageDegree ==
    LET a == calculateAnalytics(nodes, edges)
        N == Len(nodes)
        E == Len(edges) IN
    /\ N > 1 => a.density.num * (N * (N - 1)) = 2 * E * a.density.den
    /\ N <= 1 => a.density.num = 0
    /\ N > 0 => a.averageDegree.num * N = 2 * E * a.averageDegree.den
    /\ a.density.den > 0
    /\ a.averageDegree.den > 0

\* the analytics of the path A -> B -> C -> D
C19_Witness ==
    /\ lastCall.op = "getAnalytics"
    /\ MapIds(nodes) = <<"A", "B", "C", "D">>
    /\ [i \in DOMAIN edges |-> <<edges[i].source, edges[i].target>>]
          = << <<"A", "B">>, <<"B", "C">>, <<"C", "D">> >>
    /\ 2 * analytics.averageDegree.num = 3 * analytics.averageDegree.den
    /\ 2 * analytics.density.num = analytics.density.den

\* C20: findPath(source, target) returns a shortest directed path: when
\* the target is reachable from the source along outgoing edges the result
\* starts with the source, ends with the target, each consecutive pair is
\* joined by an edge, and no directed path has fewer edges; when it is not
\* reachable the result is empty.
C20_FindPathShortest ==
    \A s, t \in Range(GraphIds) :
       LET p == findPath(s, t, edges) IN
       IF t \in Within({s}, Len(edges), edges)
       THEN /\ p # <<>>
            /\ p[1] = s
            /\ p[Len(p)] = t
            /\ \A i \in 1..(Len(p) - 1) :
                  \E j \in DOMAIN edges :
                     edges[j].source = p[i] /\ edges[j].target = p[i + 1]
            /\ \A k \in 0..(Len(p) - 2) : t \notin Within({s}, k, edges)
       ELSE p = <<>>

\* a path query answered with the direct edge although the two-edge route
\* comes first in the edge collection
C20_Witness ==
    /\ lastCall.op = "query"
    /\ lastCall.arg.type = "path"
    /\ [i \in DOMAIN edges |-> <<edges[i].source, edges[i].target>>]
          = << <<"A", "B">>, <<"B", "C">>, <<"A", "C">> >>
    /\ queryResult(lastCall.arg) = <<"A", "C">>

(* ----------------------------- neighborhoods -------------------------- *)

\* the depths getNeighbors is asked for
Depths == 0..3

\* the node ids at an undirected distance between 1 and depth from origin
NodesWithin(origin, depth) ==
    (Component({origin}, depth, edges) \ {origin}) \cap Ids(nodes)

\* C21: getNeighbors(nodeId, depth) returns exactly the node ids whose
\* undirected distance from nodeId is between 1 and depth: never the
\* origin, no id twice, and nothing for depth 0.
C21_NeighborsWithinDepth ==
    \A origin \in Ids(nodes), depth \in Depths :
       LET r == getNeighbors(origin, depth, edges) IN
       /\ Range(r) = NodesWithin(origin, depth)
       /\ \A i, j \in DOMAIN r : r[i] = r[j] => i = j

(* ------------------------------ filtering ---------------------------- *)

\* the active filters of a list that apply to nodes
NodeFilters(filters) ==
    { i \in DOMAIN filters :
         filters[i].active /\ filters[i].type \in {"node", "both"} }

\* C22: filterData keeps a node exactly when, for every active filter that
\* applies to nodes, all criteria of that filter match it, and the result
\* has no edge whose source or target is not a kept node.
C22_FilterConjunction ==
    lastCall.op = "applyFilters"
        => LET filters == lastCall.arg
               pre == lastCall.pre
               r == filterData(pre.nodes, pre.edges, filters) IN
           /\ r.nodes = SelectSeq(pre.nodes, LAMBDA n :
                 \A i \in NodeFilters(filters) :
                    \A c \in DOMAIN filters[i].criteria :
                       matchesCriterion(n, filters[i].criteria[c]))
           /\ \A e \in DOMAIN r.edges :
                 /\ r.edges[e].source \in Ids(r.nodes)
                 /\ r.edges[e].target \in Ids(r.nodes)
           /\ \A e \in DOMAIN r.edges : r.edges[e] \in Range(pre.edges)

\* the AND example: status = complete and priority = high keeps only x,
\* and with x alone no edge is left
C22_Witness ==
    /\ lastCall.op = "applyFilters"
    /\ Len(lastCall.arg) = 1
    /\ lastCall.arg[1].criteria
          = <<Criteria.statusComplete, Criteria.priorityHigh>>
    /\ lastCall.arg[1].active
    /\ MapIds(filterData(lastCall.pre.nodes, lastCall.pre.edges,
                          lastCall.arg).nodes) = <<"x">>
    /\ filterData(lastCall.pre.nodes, lastCall.pre.edges,
                   lastCall.arg).edges = <<>>

\* the criterion's value asks for the undefined state: it is undefined, or
\* an array that lists undefined
ChecksUndefined(criterion) ==
    \/ criterion.value = Undefined
    \/ /\ criterion.value.t = "array"
       /\ \E i \in DOMAIN criterion.value.a : criterion.value.a[i] = Undefined

\* C23: a criterion whose property path does not exist on the item reads
\* undefined, raises no error, and matches under none of the operators
\* equals, contains, greater, less, in, not-in, unless the criterion's
\* value checks for the undefined state.
C23_MissingPathMatchesNothing ==
    lastCall.op = "applyFilters"
        => \A f \in DOMAIN lastCall.arg :
              \A c \in DOMAIN lastCall.arg[f].criteria :
                 \A item \in Range(lastCall.pre.nodes)
                               \cup Range(lastCall.pre.edges) :
                    LET criterion == lastCall.arg[f].criteria[c] IN
                    (/\ getNestedProperty(item, criterion.property) = Undefined
                     /\ ~ChecksUndefined(criterion))
                        => ~matchesCriterion(item, criterion)

\* C29: applyFilters only affects what is rendered: when it returns, and
\* also when the rendering backend fails during the filtered render, the
\* nodes, the edges, the current version and the history list are those
\* before the call.
C29_ApplyFiltersLeavesStore ==
    lastCall.op = "applyFilters" => store = StoreOf(lastCall.pre)

(* --------------------------- order of the path ----------------------- *)

\* the position of node id in the node collection (its insertion order)
NodeIndex(id) == CHOOSE i \in DOMAIN nodes : nodes[i].id = id

\* the step of the critical path p at which id has no in-edge left: 0 when
\* it never had one, else the position in p of its last predecessor
ReleasedAt(p, id) ==
    LET preds == { edges[j].source :
                      j \in { k \in DOMAIN edges : edges[k].target = id } } IN
    IF preds = {} THEN 0
    ELSE CHOOSE m \in DOMAIN p :
            /\ p[m] \in preds
            /\ \A s \in preds : \A q \in Places(p, s) : q <= m

\* C24: critical-path tie-break: nodes whose remaining in-degree is zero
\* at the same time (from the start, or after the same node was dequeued)
\* are emitted in node insertion order, whatever the order of the edges.
C24_TieBreakInsertionOrder ==
    LET p == findCriticalPath(nodes, edges) IN
    \A a, b \in DOMAIN p :
       (/\ ReleasedAt(p, p[a]) = ReleasedAt(p, p[b])
        /\ NodeIndex(p[a]) < NodeIndex(p[b]))
           => a < b

(* ---------------------------- change payloads ------------------------ *)

\* the elements of s with the given id
WithId(s, id) == { s[i] : i \in { j \in DOMAIN s : s[j].id = id } }

\* the ids held before and after under which the elements differ
ChangedIds(before, after) ==
    { id \in Ids(before) \cap Ids(after) : WithId(before, id) # WithId(after, id) }

\* C25: the change payload of a history record names exactly what its
\* mutation did: the added, modified and removed node ids and edge ids are
\* the ids the mutation inserted, changed and deleted (cascaded edges
\* included, absent ids excluded, imported elements included).
C25_ChangesNameTheMutation ==
    (StructuralMutation \/ (lastCall.op = "import" /\ ~lastCall.threw))
        => LET changes == versionHistory[Len(versionHistory)].changes
               pre == lastCall.pre IN
           /\ Range(changes.added.nodes) = Ids(nodes) \ Ids(pre.nodes)
           /\ Range(changes.added.edges) = Ids(edges) \ Ids(pre.edges)
           /\ Range(changes.removed.nodes) = Ids(pre.nodes) \ Ids(nodes)
           /\ Range(changes.removed.edges) = Ids(pre.edges) \ Ids(edges)
           /\ Range(changes.modified.nodes) = ChangedIds(pre.nodes, nodes)
           /\ Range(changes.modified.edges) = ChangedIds(pre.edges, edges)

(* -------------------------------- revert ----------------------------- *)

\* the first record of history h with the given id
FirstWithId(h, id) ==
    h[CHOOSE i \in DOMAIN h :
         h[i].id = id /\ \A j \in DOMAIN h : h[j].id = id => i <= j]

\* C26: revertToVersion(versionId) with the id of an existing record only
\* rewrites the label: the current version and metadata.version become
\* that record's version, and the nodes, the edges and the history list
\* stay as they were.
C26_RevertIsLabelOnly ==
    (/\ lastCall.op = "revertToVersion"
     /\ lastCall.arg \in Ids(lastCall.pre.versionHistory))
        => LET version == FirstWithId(lastCall.pre.versionHistory,
                                      lastCall.arg).version IN
           /\ ~lastCall.threw
           /\ currentVersion = version
           /\ metaVersion = version
           /\ nodes = lastCall.pre.nodes
           /\ edges = lastCall.pre.edges
           /\ versionHistory = lastCall.pre.versionHistory

\* a revert to an older record of a store whose content changed since
C26_Witness ==
    /\ lastCall.op = "revertToVersion"
    /\ ~lastCall.threw
    /\ VersionLess(currentVersion, lastCall.pre.currentVersion)
    /\ Len(versionHistory) >= 2
    /\ nodes # <<>>

(* ---------------------------- analytics cache ------------------------ *)

\* C27: analytics cache coherence: after any sequence of engine operations
\* getAnalytics() returns what recomputing the analytics from the store's
\* current nodes and edges gives.
C27_AnalyticsCacheCoherent ==
    lastCall.op = "getAnalytics"
        => analytics = calculateAnalytics(nodes, edges)

(* ------------------------------ realtime ----------------------------- *)

\* C28: realtime updates do not echo: handling an update that arrived on
\* the websocket sends no message on it.
C28_NoEcho ==
    [][lastCall'.op = "handleRealtimeUpdate" /\ calls' = calls + 1
          => websocket'.sent = websocket.sent]_vars

(* ------------------------- the component's refresh ------------------- *)

\* C30: data refresh replaces the graph: after the component's
\* removeNodes(getAnalytics().criticalPath); addNodes(new nodes);
\* addEdges(new edges) the engine holds exactly the nodes and the edges of
\* the newly converted graph.
C30_RefreshReplacesGraph ==
    lastCall.op = "addEdges" /\ calls > MountCalls
        => /\ Range(nodes) = Range(lastCall.prev.arg)
           /\ Range(edges) = Range(lastCall.arg)

====
